---- MODULE Spec2Model ----
(***************************************************************************)
(* Model of Streamlit_Dashboard/app.py: the column standardizer            *)
(* (_standardize_dataframe), the merge of the two uploaded tables, and the *)
(* script that Streamlit re-runs from top to bottom after every widget     *)
(* event.                                                                  *)
(*                                                                         *)
(* A DataFrame is [cols |-> sequence of [name, cells], n |-> row count];   *)
(* column names are strings, duplicated names are two entries of cols.     *)
(* A cell is one of Num(i), Str(s), NaN, NaT, Ts(ymd, ns).                 *)
(***************************************************************************)
EXTENDS Integers, Sequences, FiniteSets, TLC

VARIABLES
  uploaded_file1,   \* file slot 1: None or an uploaded file
  uploaded_file2,   \* file slot 2
  metric_choice,    \* the selectbox's widget state
  run,              \* the last script run: its sidebar message, the
                    \* namespace it ended with (globals), the value line 70
                    \* bound df_combined to (merged), the dashboard elements
                    \* it rendered (page)
  std_in,           \* standardizer harness: the input table
  std_out,          \* standardizer harness: _standardize_dataframe(std_in)
  std_again,        \* standardizer harness: _standardize_dataframe(std_out)
  pc                \* standardizer harness: position

vars == <<uploaded_file1, uploaded_file2, metric_choice, run,
          std_in, std_out, std_again, pc>>

session_vars == <<uploaded_file1, uploaded_file2, metric_choice, run>>
harness_vars == <<std_in, std_out, std_again, pc>>

(***************************************************************************)
(* Bounds of the standardizer harness.                                     *)
(***************************************************************************)
MaxCols == 2
MaxRows == 2

(***************************************************************************)
(* Values.                                                                 *)
(***************************************************************************)
None == [k |-> "None"]
Unbound == [k |-> "unbound"]
NaN == [k |-> "nan"]
NaT == [k |-> "nat"]
Num(i) == [k |-> "num", n |-> i]
Str(s) == [k |-> "str", s |-> s]
Ts(d, t) == [k |-> "ts", ymd |-> d, ns |-> t]
Raised(e) == [exc |-> e]
IsRaised(r) == "exc" \in DOMAIN r
IsFrame(r) == "cols" \in DOMAIN r
Series(cells) == [series |-> cells]

(***************************************************************************)
(* Python str methods used on column names.                                *)
(***************************************************************************)
Whitespace == {" "}
UpperCase == "ABCDEFGHIJKLMNOPQRSTUVWXYZ"
LowerCase == "abcdefghijklmnopqrstuvwxyz"

RECURSIVE lstrip(_)
lstrip(s) ==
  IF Len(s) > 0 /\ SubSeq(s, 1, 1) \in Whitespace
  THEN lstrip(SubSeq(s, 2, Len(s))) ELSE s

RECURSIVE rstrip(_)
rstrip(s) ==
  IF Len(s) > 0 /\ SubSeq(s, Len(s), Len(s)) \in Whitespace
  THEN rstrip(SubSeq(s, 1, Len(s) - 1)) ELSE s

\* a strip that removes at most one whitespace character per side
strip_one(s) ==
  LET a == IF Len(s) > 0 /\ SubSeq(s, 1, 1) \in Whitespace
           THEN SubSeq(s, 2, Len(s)) ELSE s
  IN IF Len(a) > 0 /\ SubSeq(a, Len(a), Len(a)) \in Whitespace
     THEN SubSeq(a, 1, Len(a) - 1) ELSE a

strip(s) == rstrip(lstrip(s))

lower_char(c) ==
  IF \E i \in 1..26 : SubSeq(UpperCase, i, i) = c
  THEN LET i == CHOOSE j \in 1..26 : SubSeq(UpperCase, j, j) = c
       IN SubSeq(LowerCase, i, i)
  ELSE c

RECURSIVE lower(_)
lower(s) ==
  IF Len(s) = 0 THEN s
  ELSE lower_char(SubSeq(s, 1, 1)) \o lower(SubSeq(s, 2, Len(s)))

\* Python's `sub in s` on strings
contains(s, sub) ==
  \E i \in 1..(Len(s) - Len(sub) + 1) : SubSeq(s, i, i + Len(sub) - 1) = sub

(***************************************************************************)
(* _standardize_dataframe, lines 20-31: the name each column is renamed to *)
(***************************************************************************)
is_date_name(lname) ==
  contains(lname, "date") \/ contains(lname, "month") \/ contains(lname, "period")

is_revenue_name(lname) ==
  \/ contains(lname, "revenue") \/ contains(lname, "sale")
  \/ contains(lname, "sales") \/ contains(lname, "amount")

is_expenses_name(lname) ==
  contains(lname, "expense") \/ contains(lname, "cost")

\* the Expenses rule tried before the Revenue rule
col_map_entry_expenses_first(col) ==
  LET name == strip(col)
      lname == lower(name)
  IN IF is_date_name(lname) THEN "Date"
     ELSE IF is_expenses_name(lname) THEN "Expenses"
     ELSE IF is_revenue_name(lname) THEN "Revenue"
     ELSE name

col_map_entry(col) ==
  LET name == strip(col)
      lname == lower(name)
  IN IF is_date_name(lname) THEN "Date"
     ELSE IF is_revenue_name(lname) THEN "Revenue"
     ELSE IF is_expenses_name(lname) THEN "Expenses"
     ELSE name

(***************************************************************************)
(* DataFrame operations used by the program.                               *)
(***************************************************************************)
columns(df) == {df.cols[i].name : i \in DOMAIN df.cols}

positions(df, name) == {i \in DOMAIN df.cols : df.cols[i].name = name}

\* df.rename(columns=mapper): every label is mapped, labels may collide
rename(df, mapper) ==
  [df EXCEPT !.cols = [i \in DOMAIN df.cols |->
      [df.cols[i] EXCEPT !.name =
          IF @ \in DOMAIN mapper THEN mapper[@] ELSE @]]]

\* df[name]: a Series for a unique label, a DataFrame of the
\* columns that carry the label when it is duplicated
getitem(df, name) ==
  IF Cardinality(positions(df, name)) = 1
  THEN Series(df.cols[CHOOSE i \in positions(df, name) : TRUE].cells)
  ELSE [cols |-> SelectSeq(df.cols, LAMBDA c : c.name = name), n |-> df.n]

\* df[name] = cells, for a Series or a scalar broadcast to a Series
setitem(df, name, cells) ==
  IF name \in columns(df)
  THEN [df EXCEPT !.cols = [i \in DOMAIN df.cols |->
          IF df.cols[i].name = name
          THEN [df.cols[i] EXCEPT !.cells = cells] ELSE df.cols[i]]]
  ELSE [df EXCEPT !.cols = Append(df.cols, [name |-> name, cells |-> cells])]

broadcast(df, value) == [i \in 1..df.n |-> value]

(***************************************************************************)
(* pd.to_numeric(errors='coerce'), .fillna(0), pd.to_datetime(errors=      *)
(* 'coerce'), cell by cell.  Numbers are integers; the date syntax is the  *)
(* ISO form YYYY-MM-DD.                                                    *)
(***************************************************************************)
Digits == "0123456789"

is_digit(c) == \E i \in 1..10 : SubSeq(Digits, i, i) = c

digit_value(c) == (CHOOSE i \in 1..10 : SubSeq(Digits, i, i) = c) - 1

all_digits(s) == Len(s) > 0 /\ \A i \in 1..Len(s) : is_digit(SubSeq(s, i, i))

RECURSIVE digits_value(_)
digits_value(s) ==
  IF Len(s) = 0 THEN 0
  ELSE 10 * digits_value(SubSeq(s, 1, Len(s) - 1)) + digit_value(SubSeq(s, Len(s), Len(s)))

to_numeric_cell(c) ==
  IF c.k = "num" THEN c
  ELSE IF c.k = "str"
  THEN IF all_digits(c.s) THEN Num(digits_value(c.s))
       ELSE IF Len(c.s) > 1 /\ SubSeq(c.s, 1, 1) = "-" /\ all_digits(SubSeq(c.s, 2, Len(c.s)))
       THEN Num(0 - digits_value(SubSeq(c.s, 2, Len(c.s))))
       ELSE IF Len(c.s) > 1 /\ SubSeq(c.s, 1, 1) = "+" /\ all_digits(SubSeq(c.s, 2, Len(c.s)))
       THEN Num(digits_value(SubSeq(c.s, 2, Len(c.s))))
       ELSE NaN
  ELSE NaN

fillna(c, value) == IF c.k \in {"nan", "nat"} THEN value ELSE c

\* pd.to_numeric on a DataFrame raises TypeError
to_numeric(arg) ==
  IF IsFrame(arg) THEN Raised("TypeError")
  ELSE Series([i \in DOMAIN arg.series |-> to_numeric_cell(arg.series[i])])

is_leap(y) == (y % 4 = 0 /\ y % 100 # 0) \/ y % 400 = 0

days_in_month(y, m) ==
  IF m = 2 THEN (IF is_leap(y) THEN 29 ELSE 28)
  ELSE IF m \in {4, 6, 9, 11} THEN 30 ELSE 31

parse_date(s) ==
  IF /\ Len(s) = 10
     /\ SubSeq(s, 5, 5) = "-" /\ SubSeq(s, 8, 8) = "-"
     /\ all_digits(SubSeq(s, 1, 4)) /\ all_digits(SubSeq(s, 6, 7))
     /\ all_digits(SubSeq(s, 9, 10))
  THEN LET y == digits_value(SubSeq(s, 1, 4))
           m == digits_value(SubSeq(s, 6, 7))
           d == digits_value(SubSeq(s, 9, 10))
       IN IF /\ y \in 1678..2261 /\ m \in 1..12
             /\ d \in 1..days_in_month(y, m)
          THEN Ts(y * 10000 + m * 100 + d, 0) ELSE NaT
  ELSE NaT

\* a Timestamp n nanoseconds from the epoch, for |n| less than a day
from_epoch_ns(n) == Ts(19700101, n)

to_datetime_cell(c) ==
  IF c.k = "ts" THEN c
  ELSE IF c.k = "num" THEN from_epoch_ns(c.n)
  ELSE IF c.k = "str" THEN parse_date(c.s)
  ELSE NaT

\* pd.to_datetime on a DataFrame assembles a date from year/month/day
\* columns and raises ValueError when they are missing or duplicated
to_datetime(arg) ==
  IF IsFrame(arg) THEN Raised("ValueError")
  ELSE Series([i \in DOMAIN arg.series |-> to_datetime_cell(arg.series[i])])

(***************************************************************************)
(* _standardize_dataframe, lines 11-53.  The result is the returned        *)
(* DataFrame, or Raised(e) when a statement raises e.                      *)
(***************************************************************************)
col_map(df) == [col \in columns(df) |-> col_map_entry(col)]

\* df[name] = result, unless computing result raised
assign(df, name, result) ==
  IF IsRaised(result) THEN result ELSE setitem(df, name, result.series)

\* a coercion whose missing values are left missing
fillna_series_skipped(result, value) == result

\* result.fillna(value), unless computing result raised
fillna_series(result, value) ==
  IF IsRaised(result) THEN result
  ELSE Series([i \in DOMAIN result.series |-> fillna(result.series[i], value)])

\* lines 36-39
standardize_date(df) ==
  IF "Date" \in columns(df)
  THEN assign(df, "Date", to_datetime(getitem(df, "Date")))
  ELSE setitem(df, "Date", broadcast(df, NaT))

\* a numeric column that is coerced when present and not created when absent
standardize_numeric_no_default(df, name) ==
  IF IsRaised(df) THEN df
  ELSE IF name \in columns(df)
  THEN assign(df, name, fillna_series(to_numeric(getitem(df, name)), Num(0)))
  ELSE df

\* lines 42-45 and 47-51; nothing is done once a statement has raised
standardize_numeric(df, name) ==
  IF IsRaised(df) THEN df
  ELSE IF name \in columns(df)
  THEN assign(df, name, fillna_series(to_numeric(getitem(df, name)), Num(0)))
  ELSE setitem(df, name, broadcast(df, Num(0)))

standardize_dataframe(df) ==
  standardize_numeric(
    standardize_numeric(standardize_date(rename(df, col_map(df))), "Revenue"),
    "Expenses")

(***************************************************************************)
(* The standardizer harness: input tables drawn from a pool of column      *)
(* names and a pool of cell values, then _standardize_dataframe applied    *)
(* once, and once more to its own result.                                  *)
(***************************************************************************)
NamePool ==
  << "Date", " Month ", "Sales Date", "Revenue", "Cost of Sales", "AMOUNT",
     "Expenses", "cost", "  Region ", "Region" >>

\* each entry: a cell, whether pd.to_numeric reads a number from it and
\* which, and the date pd.to_datetime reads from it
CellPool ==
  << [cell |-> Num(5),            numeric |-> TRUE,  number |-> 5,     date |-> Ts(19700101, 5)],
     [cell |-> Str("abc"),        numeric |-> FALSE, number |-> 0,     date |-> NaT],
     [cell |-> Str("12"),         numeric |-> TRUE,  number |-> 12,    date |-> NaT],
     [cell |-> Str("2024-01-15"), numeric |-> FALSE, number |-> 0,     date |-> Ts(20240115, 0)],
     [cell |-> NaN,               numeric |-> FALSE, number |-> 0,     date |-> NaT],
     [cell |-> Str("-7"),         numeric |-> TRUE,  number |-> 0 - 7, date |-> NaT],
     [cell |-> Str("2023-02-29"), numeric |-> FALSE, number |-> 0,     date |-> NaT],
     [cell |-> Num(0 - 3),        numeric |-> TRUE,  number |-> 0 - 3, date |-> Ts(19700101, 0 - 3)],
     [cell |-> Str("1,200"),      numeric |-> FALSE, number |-> 0,     date |-> NaT],
     [cell |-> Str("2024-02-29"), numeric |-> FALSE, number |-> 0,     date |-> Ts(20240229, 0)] >>

Headers ==
  { h \in UNION { [1..k -> 1..Len(NamePool)] : k \in 0..MaxCols } :
      \A i, j \in DOMAIN h : i # j => h[i] # h[j] }

pool_cell(offset, j, i) ==
  CellPool[((offset + 2 * (j - 1) + (i - 1)) % Len(CellPool)) + 1].cell

input_table(h, n, offset) ==
  [cols |-> [j \in DOMAIN h |->
               [name |-> NamePool[h[j]],
                cells |-> [i \in 1..n |-> pool_cell(offset, j, i)]]],
   n |-> n]

InputTables ==
  { input_table(h, n, offset) :
      h \in Headers, n \in 0..MaxRows, offset \in 0..(Len(CellPool) - 1) }

CallStandardize ==
  /\ pc = "input"
  /\ std_out' = standardize_dataframe(std_in)
  /\ pc' = IF IsRaised(std_out') THEN "raised" ELSE "returned"
  /\ UNCHANGED <<std_in, std_again>>
  /\ UNCHANGED session_vars

CallStandardizeAgain ==
  /\ pc = "returned"
  /\ std_again' = standardize_dataframe(std_out)
  /\ pc' = "again"
  /\ UNCHANGED <<std_in, std_out>>
  /\ UNCHANGED session_vars

(***************************************************************************)
(* The merge, lines 68-70, and the DataFrame operations of the rendering,  *)
(* lines 81-101.                                                           *)
(***************************************************************************)
labels(df) == [i \in DOMAIN df.cols |-> df.cols[i].name]

is_unique(df) == Cardinality(columns(df)) = Len(df.cols)

\* the cells of a uniquely labelled column, NaN for every row when absent
cells_or_nan(df, name) ==
  IF name \in columns(df) THEN getitem(df, name).series ELSE broadcast(df, NaN)

\* a concat that puts the second frame's rows first
concat_reversed(a, b) ==
  IF labels(a) = labels(b)
  THEN [cols |-> [i \in DOMAIN a.cols |->
                    [name |-> a.cols[i].name,
                     cells |-> b.cols[i].cells \o a.cols[i].cells]],
        n |-> a.n + b.n]
  ELSE IF ~is_unique(a) \/ ~is_unique(b) THEN Raised("InvalidIndexError")
  ELSE LET union == labels(a) \o SelectSeq(labels(b), LAMBDA x : x \notin columns(a))
       IN [cols |-> [i \in DOMAIN union |->
                       [name |-> union[i],
                        cells |-> cells_or_nan(b, union[i]) \o cells_or_nan(a, union[i])]],
           n |-> a.n + b.n]

\* pd.concat([a, b], ignore_index=True): rows of a, then rows of b, over the
\* union of the columns; reindexing a frame whose labels are duplicated
\* raises InvalidIndexError
concat(a, b) ==
  IF labels(a) = labels(b)
  THEN [cols |-> [i \in DOMAIN a.cols |->
                    [name |-> a.cols[i].name,
                     cells |-> a.cols[i].cells \o b.cols[i].cells]],
        n |-> a.n + b.n]
  ELSE IF ~is_unique(a) \/ ~is_unique(b) THEN Raised("InvalidIndexError")
  ELSE LET union == labels(a) \o SelectSeq(labels(b), LAMBDA x : x \notin columns(a))
       IN [cols |-> [i \in DOMAIN union |->
                       [name |-> union[i],
                        cells |-> cells_or_nan(a, union[i]) \o cells_or_nan(b, union[i])]],
           n |-> a.n + b.n]

RECURSIVE sum_cells(_)
sum_cells(cells) ==
  IF Len(cells) = 0 THEN 0
  ELSE (IF Head(cells).k = "num" THEN Head(cells).n ELSE 0) + sum_cells(Tail(cells))

\* Series.sum() of a uniquely labelled column
column_sum(df, name) == sum_cells(getitem(df, name).series)

isna(c) == c.k \in {"nan", "nat"}

\* ascending order of Date cells, NaT after every date
date_before(c, d) ==
  /\ ~isna(c)
  /\ \/ isna(d)
     \/ c.ymd < d.ymd
     \/ c.ymd = d.ymd /\ c.ns < d.ns

\* df.sort_values(name): the rows in ascending order of the column, ties in
\* input order; index keeps each row's label
sort_values(df, name) ==
  LET key == getitem(df, name).series
      rank(i) == 1 + Cardinality({ j \in 1..df.n :
                      \/ date_before(key[j], key[i])
                      \/ ~date_before(key[i], key[j]) /\ j < i })
      order == [p \in 1..df.n |-> CHOOSE i \in 1..df.n : rank(i) = p]
  IN [cols |-> [c \in DOMAIN df.cols |->
                  [name |-> df.cols[c].name,
                   cells |-> [p \in 1..df.n |-> df.cols[c].cells[order[p]]]]],
      n |-> df.n,
      index |-> [p \in 1..df.n |-> order[p] - 1]]

\* df.reset_index(): the RangeIndex becomes the first column, labelled
\* 'index', or 'level_0' when a column 'index' exists
reset_index(df) ==
  LET label == IF "index" \in columns(df) THEN "level_0" ELSE "index"
  IN IF label \in columns(df) THEN Raised("ValueError")
     ELSE [cols |-> <<[name |-> label, cells |-> [i \in 1..df.n |-> Num(i - 1)]]>>
                    \o df.cols,
           n |-> df.n]

(***************************************************************************)
(* The script, lines 56-117, run from top to bottom after every widget     *)
(* event.                                                                  *)
(***************************************************************************)
EmptyFile == [bytes |-> 0]

\* pd.read_csv: the table of the file; EmptyDataError for a file with no
\* header line
read_csv(file) == IF file = EmptyFile THEN Raised("EmptyDataError") ELSE file

FreshNamespace == [df1 |-> Unbound, df2 |-> Unbound, df_combined |-> Unbound]

\* a namespace that outlives the run that filled it
module_namespace_kept(previous) == previous

\* the namespace the run starts with: the script is executed anew, nothing
\* bound by the previous run is visible to line 76
module_namespace(previous) == FreshNamespace

Info(text) == [level |-> "info", text |-> text]
Success(text) == [level |-> "success", text |-> text]
Error(text) == [level |-> "error", text |-> text]

\* name = value inside the try block: the binding, or the exception that
\* computing value raised; nothing is done once a statement has raised
bind(try, name, value) ==
  IF try.exc # None THEN try
  ELSE IF IsRaised(value) THEN [try EXCEPT !.exc = value]
  ELSE [try EXCEPT !.ns[name] = value]

\* the operand of a statement of the try block (not evaluated once a
\* statement has raised)
bound(try, name) == IF try.exc # None THEN None ELSE try.ns[name]

standardized(try, name) ==
  IF try.exc # None THEN None ELSE standardize_dataframe(try.ns[name])

labelled(try, name, company) ==
  IF try.exc # None THEN None
  ELSE setitem(try.ns[name], "Company", broadcast(try.ns[name], Str(company)))

combined(try) ==
  IF try.exc # None THEN None ELSE concat(try.ns.df1, try.ns.df2)

line64(ns, file1) == bind([ns |-> ns, exc |-> None], "df1", read_csv(file1))
line65(try, file2) == bind(try, "df2", read_csv(file2))
line66(try) == bind(try, "df1", standardized(try, "df1"))
line67(try) == bind(try, "df2", standardized(try, "df2"))
line68(try) == bind(try, "df1", labelled(try, "df1", "Company A"))
line69(try) == bind(try, "df2", labelled(try, "df2", "Company B"))
line70(try) == bind(try, "df_combined", combined(try))

\* lines 71-73
load_message(try) ==
  IF try.exc # None
  THEN [ns |-> try.ns, sidebar |-> Error("Error loading files: " \o try.exc.exc)]
  ELSE [ns |-> try.ns, sidebar |-> Success("Data uploaded successfully")]

\* lines 63-73: the try block and its except clause
load_files(ns, file1, file2) ==
  load_message(line70(line69(line68(line67(line66(line65(line64(ns, file1), file2)))))))

\* line 97
no_dates(df) ==
  \/ "Date" \notin columns(df)
  \/ \A i \in 1..df.n : isna(getitem(df, "Date").series[i])

\* the frame and axis after a reset_index that may have raised
period_axis(reset, frame) ==
  IF IsRaised(reset) THEN reset ELSE [df_combined |-> frame, x_col |-> "Period"]

\* lines 96-102: the frame given to the chart and its horizontal axis
x_axis(df) ==
  IF no_dates(df)
  THEN period_axis(reset_index(df),
                   rename(reset_index(df), [c \in {"index"} |-> "Period"]))
  ELSE [df_combined |-> sort_values(df, "Date"), x_col |-> "Date"]

NoDashboard == [dashboard |-> FALSE]

\* lines 104-115; an exception raised by line 98 ends the run before them
chart(ns, shown, axis) ==
  IF IsRaised(axis)
  THEN [ns |-> ns,
        page |-> [chart |-> FALSE, summary |-> FALSE] @@ shown]
  ELSE [ns |-> [ns EXCEPT !.df_combined = axis.df_combined],
        page |-> [chart |-> TRUE, x |-> axis.x_col, y |-> shown.metric_to_plot,
                  color |-> "Company", data_frame |-> axis.df_combined,
                  summary |-> TRUE] @@ shown]

\* a profit that adds the expenses
totals_added(df, choice) ==
  [dashboard |-> TRUE,
   total_revenue |-> column_sum(df, "Revenue"),
   total_expenses |-> column_sum(df, "Expenses"),
   total_profit |-> column_sum(df, "Revenue") + column_sum(df, "Expenses"),
   metrics_available |->
     SelectSeq(<<"Revenue", "Expenses">>, LAMBDA m : m \in columns(df)),
   metric_to_plot |-> choice]

\* lines 77-94
totals(df, choice) ==
  [dashboard |-> TRUE,
   total_revenue |-> column_sum(df, "Revenue"),
   total_expenses |-> column_sum(df, "Expenses"),
   total_profit |-> column_sum(df, "Revenue") - column_sum(df, "Expenses"),
   metrics_available |->
     SelectSeq(<<"Revenue", "Expenses">>, LAMBDA m : m \in columns(df)),
   metric_to_plot |-> choice]

\* lines 77-115
dashboard(ns, choice) ==
  chart(ns, totals(ns.df_combined, choice), x_axis(ns.df_combined))

\* a dashboard drawn whatever the try block did
render_always(loaded, choice, drawn) ==
  [sidebar |-> loaded.sidebar, globals |-> loaded.ns,
   merged |-> loaded.ns.df_combined,
   page |-> [dashboard |-> TRUE, chart |-> FALSE, summary |-> FALSE],
   metric_choice |-> choice]

\* lines 75-76: the dashboard, drawn only if the run bound df_combined
render(loaded, choice, drawn) ==
  IF loaded.ns.df_combined # Unbound
  THEN [sidebar |-> loaded.sidebar, globals |-> drawn.ns,
        merged |-> loaded.ns.df_combined, page |-> drawn.page,
        metric_choice |-> choice]
  ELSE [sidebar |-> loaded.sidebar, globals |-> loaded.ns,
        merged |-> Unbound, page |-> NoDashboard,
        metric_choice |-> "Revenue"]

drawn_if_bound(loaded, choice) ==
  IF loaded.ns.df_combined # Unbound THEN dashboard(loaded.ns, choice) ELSE None

render_loaded(loaded, choice) == render(loaded, choice, drawn_if_bound(loaded, choice))

\* lines 116-117
upload_notice(ns) ==
  [sidebar |-> Info("Please upload both data files to see the dashboard."),
   globals |-> ns, merged |-> Unbound, page |-> NoDashboard,
   metric_choice |-> "Revenue"]

\* one run of the script with the two uploaders and the selectbox in the
\* given state
script(file1, file2, choice, previous) ==
  IF file1 # None /\ file2 # None
  THEN render_loaded(load_files(module_namespace(previous), file1, file2), choice)
  ELSE upload_notice(module_namespace(previous))

(***************************************************************************)
(* The files a user uploads.                                               *)
(***************************************************************************)
column(name, cells) == [name |-> name, cells |-> cells]

FilePool ==
  << EmptyFile,
     [cols |-> << column("Month", <<Str("2024-02-01"), Str("2024-01-01")>>),
                  column("Sales", <<Num(100), Num(200)>>) >>, n |-> 2],
     [cols |-> << column("Cost", <<Num(50), Num(75)>>) >>, n |-> 2],
     [cols |-> << column("Date", <<Str("2024-01-01")>>),
                  column("Revenue", <<Str("abc")>>) >>, n |-> 1],
     [cols |-> << column("Revenue", <<Num(10)>>),
                  column("Sales", <<Num(20)>>) >>, n |-> 1],
     [cols |-> << column("index", <<Num(7), Num(9)>>),
                  column("Sales", <<Num(30), Str("40")>>) >>, n |-> 2],
     [cols |-> << column("index", <<Num(7)>>),
                  column("level_0", <<Num(8)>>),
                  column("Amount", <<Num(60)>>) >>, n |-> 1],
     [cols |-> << column(" Region", <<Str("N")>>),
                  column("Region", <<Str("S")>>),
                  column("Amount", <<Num(5)>>) >>, n |-> 1],
     [cols |-> << column("Company", <<Str("Acme"), Str("Acme"), Str("Zeta")>>),
                  column("Sale Date", <<Str("2024-03-01"), Str("n/a"), Str("2024-01-01")>>),
                  column("Revenue", <<Num(1), Num(2), Num(3)>>),
                  column("Expenses", <<Str("4"), NaN, Num(6)>>) >>, n |-> 3],
     [cols |-> << column("Date", <<>>), column("Revenue", <<>>) >>, n |-> 0] >>

Files == { FilePool[i] : i \in 1..Len(FilePool) }

(***************************************************************************)
(* Widget events; each one re-runs the script.                             *)
(***************************************************************************)
Rerun(file1, file2, choice) ==
  /\ uploaded_file1' = file1
  /\ uploaded_file2' = file2
  /\ run' = script(file1, file2, choice, run.globals)
  /\ metric_choice' = run'.metric_choice
  /\ UNCHANGED harness_vars

Upload1(file) == Rerun(file, uploaded_file2, metric_choice)

Upload2(file) == Rerun(uploaded_file1, file, metric_choice)

Remove1 == uploaded_file1 # None /\ Rerun(None, uploaded_file2, metric_choice)

Remove2 == uploaded_file2 # None /\ Rerun(uploaded_file1, None, metric_choice)

SelectMetric(m) ==
  /\ run.page.dashboard
  /\ m \in { run.page.metrics_available[i] : i \in DOMAIN run.page.metrics_available }
  /\ Rerun(uploaded_file1, uploaded_file2, m)

(***************************************************************************)
(* Specifications.                                                         *)
(***************************************************************************)
FirstRun == script(None, None, "Revenue", FreshNamespace)

SessionInit ==
  /\ uploaded_file1 = None
  /\ uploaded_file2 = None
  /\ metric_choice = "Revenue"
  /\ run = FirstRun

HarnessIdle ==
  /\ std_in = Unbound
  /\ std_out = Unbound
  /\ std_again = Unbound
  /\ pc = "idle"

Init == SessionInit /\ HarnessIdle

Next ==
  \/ \E file \in Files : Upload1(file)
  \/ \E file \in Files : Upload2(file)
  \/ Remove1
  \/ Remove2
  \/ \E m \in {"Revenue", "Expenses"} : SelectMetric(m)

Spec == Init /\ [][Next]_vars

InitStd ==
  /\ SessionInit
  /\ std_in \in InputTables
  /\ std_out = Unbound
  /\ std_again = Unbound
  /\ pc = "input"

NextStd == CallStandardize \/ CallStandardizeAgain

SpecStd == InitStd /\ [][NextStd]_vars

(***************************************************************************)
(* Properties of _standardize_dataframe, checked under SpecStd.            *)
(***************************************************************************)
Returned == pc \in {"returned", "again"}

\* the classification rule a raw column name falls under, as section 4.1
\* states the rules
rule_of(raw) ==
  IF is_date_name(lower(strip(raw))) THEN "Date"
  ELSE IF is_revenue_name(lower(strip(raw))) THEN "Revenue"
  ELSE IF is_expenses_name(lower(strip(raw))) THEN "Expenses"
  ELSE "none"

PoolNames == { NamePool[i] : i \in 1..Len(NamePool) }

\* rule_of and the trimmed name, tabulated over the pool of names
Rule == [raw \in PoolNames |-> rule_of(raw)]

Trimmed == [raw \in PoolNames |-> strip(raw)]

\* the pool entry of each pool cell
Expected ==
  [c \in { CellPool[i].cell : i \in 1..Len(CellPool) } |->
     CHOOSE e \in { CellPool[i] : i \in 1..Len(CellPool) } : e.cell = c]

\* two input columns fall under the same rule
SharedRule(df) ==
  \E i, j \in DOMAIN df.cols :
    /\ i # j
    /\ Rule[df.cols[i].name] # "none"
    /\ Rule[df.cols[i].name] = Rule[df.cols[j].name]

\* C1: every table _standardize_dataframe returns has a Date, a Revenue and
\* an Expenses column and keeps every input column that matched no rule
\* under its trimmed name; it returns a table for every input, whatever the
\* cells and also with no column at all, except when two input columns fall
\* under the same rule
C1_CanonicalColumnsPresent ==
  /\ Returned =>
       /\ {"Date", "Revenue", "Expenses"} \subseteq columns(std_out)
       /\ \A i \in DOMAIN std_in.cols :
            Rule[std_in.cols[i].name] = "none"
              => std_out.cols[i].name = Trimmed[std_in.cols[i].name]
       /\ \A i \in DOMAIN std_out.cols : Len(std_out.cols[i].cells) = std_in.n
  /\ pc = "raised" => SharedRule(std_in)

C1_Witness ==
  /\ pc = "returned"
  /\ Len(std_in.cols) = 1
  /\ std_in.cols[1].name = "  Region "
  /\ std_in.n = 2
  /\ columns(std_out) = {"Region", "Date", "Revenue", "Expenses"}

\* which rules the trimmed, lower-cased name matches, tabulated over the pool
Matches ==
  [raw \in PoolNames |->
     [date |-> is_date_name(lower(strip(raw))),
      revenue |-> is_revenue_name(lower(strip(raw))),
      expenses |-> is_expenses_name(lower(strip(raw)))]]

\* C2: each column is renamed by the first rule its trimmed, lower-cased
\* name matches, in the order Date, Revenue, Expenses, and keeps its trimmed
\* name when none matches
C2_FirstMatchPrecedence ==
  Returned =>
    \A i \in DOMAIN std_in.cols :
      LET raw == std_in.cols[i].name
          new == std_out.cols[i].name
      IN /\ Matches[raw].date => new = "Date"
         /\ ~Matches[raw].date /\ Matches[raw].revenue => new = "Revenue"
         /\ ~Matches[raw].date /\ ~Matches[raw].revenue /\ Matches[raw].expenses
              => new = "Expenses"
         /\ ~Matches[raw].date /\ ~Matches[raw].revenue /\ ~Matches[raw].expenses
              => new = Trimmed[raw]
         /\ raw = "Sales Date" => new = "Date"
         /\ raw = " Month " => new = "Date"
         /\ raw = "Cost of Sales" => new = "Revenue"
         /\ raw = "AMOUNT" => new = "Revenue"
         /\ raw = "cost" => new = "Expenses"
         /\ raw = "  Region " => new = "Region"

C2_Witness ==
  /\ pc = "returned"
  /\ Len(std_in.cols) = 2
  /\ std_in.cols[1].name = "Cost of Sales" /\ std_out.cols[1].name = "Revenue"
  /\ std_in.cols[2].name = "Sales Date" /\ std_out.cols[2].name = "Date"

\* C3: in a returned table every Revenue or Expenses cell is the number its
\* input cell reads as, or 0 when it reads as none, and every Date cell is
\* the date its input cell reads as, or the null date, each cell by itself;
\* a column absent from the input is 0 (the null date for Date) on every
\* row; and no cell content makes the call raise
C3_PerCellDefaults ==
  /\ Returned =>
       /\ \A i \in DOMAIN std_in.cols : \A r \in 1..std_in.n :
            LET old == Expected[std_in.cols[i].cells[r]]
                new == std_out.cols[i].cells[r]
                rule == Rule[std_in.cols[i].name]
            IN /\ rule \in {"Revenue", "Expenses"}
                    => new = Num(IF old.numeric THEN old.number ELSE 0)
               /\ rule = "Date" => new = old.date
               /\ rule = "none" => new = old.cell
       /\ \A name \in {"Date", "Revenue", "Expenses"} :
            (\A i \in DOMAIN std_in.cols : Rule[std_in.cols[i].name] # name)
              => /\ Cardinality(positions(std_out, name)) = 1
                 /\ getitem(std_out, name).series =
                      [r \in 1..std_in.n |-> IF name = "Date" THEN NaT ELSE Num(0)]
  /\ pc = "raised" => SharedRule(std_in)

C3_Witness ==
  /\ pc = "returned"
  /\ std_in.n = 2
  /\ \E i \in DOMAIN std_in.cols :
       /\ std_in.cols[i].name = "AMOUNT"
       /\ std_in.cols[i].cells = <<Str("abc"), Str("12")>>
       /\ std_out.cols[i].cells = <<Num(0), Num(12)>>
  /\ \E i \in DOMAIN std_in.cols :
       /\ std_in.cols[i].name = " Month "
       /\ std_in.cols[i].cells = <<Str("2024-01-15"), NaN>>
       /\ std_out.cols[i].cells = <<Ts(20240115, 0), NaT>>

\* C4 (as claimed): when two or more input columns classify to the same
\* canonical name the call raises no error and returns a table with a single
\* column of that name, holding the later input column
C4_LaterColumnOverwrites ==
  pc # "input" /\ SharedRule(std_in) =>
    /\ ~IsRaised(std_out)
    /\ \A i, j \in DOMAIN std_in.cols :
         i < j /\ Rule[std_in.cols[i].name] # "none"
               /\ Rule[std_in.cols[i].name] = Rule[std_in.cols[j].name]
           => /\ Cardinality(positions(std_out, Rule[std_in.cols[j].name])) = 1
              /\ std_out.cols[j].name = Rule[std_in.cols[j].name]

\* C5: applying _standardize_dataframe to a table it returned returns that
\* table again, names and cells
C5_Idempotent == pc = "again" => ~IsRaised(std_again) /\ std_again = std_out

C5_Witness ==
  /\ pc = "again"
  /\ std_again = std_out
  /\ std_in # std_out
  /\ \E i \in DOMAIN std_in.cols :
       /\ std_in.cols[i].name = "  Region "
       /\ std_out.cols[i].name = "Region"
  /\ \E i \in DOMAIN std_in.cols :
       /\ std_in.cols[i].name = "cost"
       /\ std_in.n = 2
       /\ std_in.cols[i].cells # std_out.cols[i].cells

(***************************************************************************)
(* Properties of the merge and of the script, checked under Spec.          *)
(***************************************************************************)
BothUploaded == uploaded_file1 # None /\ uploaded_file2 # None

\* the cells of row r under the label name
row_cells(df, r, name) == { df.cols[c].cells[r] : c \in positions(df, name) }

\* the rows of table are the rows offset+1.. of whole, in order; the
\* Company cells are compared apart
rows_kept(whole, table, offset) ==
  \A r \in 1..table.n : \A name \in columns(table) \ {"Company"} :
    row_cells(whole, offset + r, name) = row_cells(table, r, name)

merge_of(whole, a, b) ==
  /\ whole.n = a.n + b.n
  /\ \A c \in DOMAIN whole.cols : Len(whole.cols[c].cells) = whole.n
  /\ rows_kept(whole, a, 0)
  /\ rows_kept(whole, b, a.n)
  /\ \A r \in 1..whole.n :
       row_cells(whole, r, "Company") =
         {Str(IF r <= a.n THEN "Company A" ELSE "Company B")}

\* C6: the combined table has len(A) + len(B) rows, the rows of A in their
\* order and then the rows of B in theirs, and Company is 'Company A' on the
\* rows of A and 'Company B' on the rows of B, whatever Company column the
\* inputs had
C6_RowsInOrderAndLabelled ==
  run.merged # Unbound =>
    merge_of(run.merged, standardize_dataframe(uploaded_file1),
             standardize_dataframe(uploaded_file2))

C6_Witness ==
  /\ uploaded_file1 = FilePool[2]
  /\ uploaded_file2 = FilePool[9]
  /\ "Company" \in columns(uploaded_file2)
  /\ run.merged # Unbound
  /\ run.merged.n = 5
  /\ getitem(run.merged, "Company").series =
       << Str("Company A"), Str("Company A"),
          Str("Company B"), Str("Company B"), Str("Company B") >>
  /\ getitem(run.merged, "Revenue").series = <<Num(100), Num(200), Num(1), Num(2), Num(3)>>

Loads == [file \in Files |-> ~IsRaised(read_csv(file)) /\ ~IsRaised(standardize_dataframe(file))]

\* C8: the dashboard is rendered only if both slots hold a file and the
\* load completed without an exception in this run; when a file fails to
\* load an error message is shown and no part of the dashboard; with fewer
\* than two files only the upload notice is shown
C8_DashboardOnlyAfterLoad ==
  /\ run.page.dashboard =>
       /\ BothUploaded
       /\ Loads[uploaded_file1] /\ Loads[uploaded_file2]
       /\ run.sidebar = Success("Data uploaded successfully")
  /\ BothUploaded /\ (~Loads[uploaded_file1] \/ ~Loads[uploaded_file2]) =>
       /\ run.sidebar.level = "error"
       /\ run.page = NoDashboard
  /\ run.sidebar.level = "error" => run.page = NoDashboard
  /\ ~BothUploaded =>
       /\ run.sidebar = Info("Please upload both data files to see the dashboard.")
       /\ run.page = NoDashboard

C8_Witness ==
  /\ uploaded_file1 = FilePool[2]
  /\ uploaded_file2 = EmptyFile
  /\ run.sidebar = Error("Error loading files: EmptyDataError")
  /\ run.page = NoDashboard

\* the run shows what a run started from nothing shows for these files
same_as_fresh(shown, fresh) ==
  /\ fresh.ns.df_combined # Unbound
  /\ shown.merged = fresh.ns.df_combined
  /\ shown.page = dashboard(fresh.ns, shown.page.metric_to_plot).page

\* C9: whatever was uploaded, replaced or removed before, a rendered
\* dashboard shows the combined table of the two files now in the slots and
\* nothing of an earlier pair
C9_NoStaleTable ==
  /\ run.page.dashboard =>
       /\ BothUploaded
       /\ same_as_fresh(run, load_files(FreshNamespace, uploaded_file1, uploaded_file2))
  /\ ~run.page.dashboard => run.globals.df_combined = Unbound

C9_Witness ==
  /\ uploaded_file1 = FilePool[2]
  /\ uploaded_file2 = FilePool[5]
  /\ run.globals.df1 = standardize_dataframe(FilePool[2])
  /\ run.globals.df2 = FilePool[5]
  /\ run.globals.df_combined = Unbound
  /\ run.merged = Unbound
  /\ ~run.page.dashboard

\* C10 (as claimed): the chart's axis is Date with the rows in ascending
\* order of Date when some row has a date; otherwise it is a Period column
\* holding each row's index 0..n-1, the rows in their order
C10_AxisDateOrRowIndex ==
  run.page.dashboard /\ run.page.chart =>
    IF \E r \in 1..run.merged.n : ~isna(getitem(run.merged, "Date").series[r])
    THEN /\ run.page.x = "Date"
         /\ \A p, q \in 1..run.page.data_frame.n :
              p < q => ~date_before(getitem(run.page.data_frame, "Date").series[q],
                                    getitem(run.page.data_frame, "Date").series[p])
    ELSE /\ run.page.x = "Period"
         /\ Cardinality(positions(run.page.data_frame, "Period")) = 1
         /\ getitem(run.page.data_frame, "Period").series =
              [r \in 1..run.merged.n |-> Num(r - 1)]
         /\ rows_kept(run.page.data_frame, run.merged, 0)

====
